---- MODULE Spec2Model ----
(***************************************************************************)
(* The swap indexer of src/indexer.ts in its last revision (the WebSocket  *)
(* indexer with the SQLite cache, src/unnamed/part_003 lines 157-517),     *)
(* with src/utils/common.ts (src/unnamed/part_000 lines 14-32) and         *)
(* src/utils/decodeSwap.ts.                                                *)
(*                                                                         *)
(* A signature is the position of its transaction in the ledger, so that   *)
(* the ledger order of two signatures is the order of the numbers; 0 is    *)
(* null / undefined.  One action is one turn of the Node event loop: the   *)
(* code from the completion of an awaited RPC call to the next await on an *)
(* RPC call (an await of an already settled promise does not let another   *)
(* callback in).  better-sqlite3 is synchronous, so flushToDB is one step. *)
(***************************************************************************)
EXTENDS Integers, Sequences, FiniteSets, TLC

(***************************************************************************)
(* Bounds of the model.                                                    *)
(***************************************************************************)
\* transactions that land on the ledger
MaxTx == 3
\* events of the environment, over all runs: live notifications delivered
\* to the onLogs callback, 'open' events of the RPC WebSocket, restarts of
\* the process, getParsedTransaction calls that return null or throw
MaxEvents == 2
\* page size of getSignaturesForAddress: 1_000 in the source (part_003:266),
\* scaled down so that a pass of more than one page fits in MaxTx
PageLimit == 2
\* seen.size above which handleTx trims: 10_000 in the source (part_003:389),
\* scaled down so that MaxTx signatures can exceed it by more than one
SeenTrimAbove == 1
\* size the trimming stops at: 5_000 in the source (part_003:391)
SeenTrimTo == 1

(***************************************************************************)
(* Configuration read by runIndexer.                                       *)
(***************************************************************************)
TOKEN_SWAP_PROGRAM_ID == "TokenSwap"
mintAAddress == "mintA"
mintBAddress == "mintB"
vaultAAddress == "vaultA"
vaultBAddress == "vaultB"
decimalsA == 2
decimalsB == 1
scaleA == 10 ^ decimalsA
scaleB == 10 ^ decimalsB

\* JavaScript's undefined, as the value of an array read past the end
Undefined == "undefined"

(***************************************************************************)
(* decodeSwapInstruction.  The payload is the byte sequence bs58.decode    *)
(* yields.  A null result is the record with isNull = TRUE.                *)
(***************************************************************************)
RECURSIVE readLE(_, _, _)
readLE(buf, offset, n) ==
  IF n = 0 THEN 0
  ELSE buf[offset + 1] + (IF readLE(buf, offset + 1, n - 1) = 0 THEN 0
                          ELSE 256 * readLE(buf, offset + 1, n - 1))

readBigUInt64LE(buf, offset) == readLE(buf, offset, 8)

NullSwap == [isNull |-> TRUE, amountIn |-> 0, minAmountOut |-> 0]

\* the two amounts read one byte too early, the tag taken for a byte of amountIn
decodeFromTag(buf) ==
  IF Len(buf) < 17 \/ buf[1] # 1 THEN NullSwap
  ELSE [isNull |-> FALSE,
        amountIn |-> readBigUInt64LE(buf, 0),
        minAmountOut |-> readBigUInt64LE(buf, 8)]

decodeSwapInstruction(buf) ==
  IF Len(buf) < 17 \/ buf[1] # 1 THEN NullSwap
  ELSE [isNull |-> FALSE,
        amountIn |-> readBigUInt64LE(buf, 1),
        minAmountOut |-> readBigUInt64LE(buf, 9)]

(***************************************************************************)
(* indexOfKey: keys.findIndex(k => k.equals(target)), 0-based, -1 when no  *)
(* key equals the target.  PublicKey.equals reads target._bn, so with an   *)
(* undefined target the first comparison throws a TypeError.               *)
(***************************************************************************)
indexOfKey(keys, target) ==
  IF \E i \in 1..Len(keys) : keys[i] = target
  THEN (CHOOSE i \in 1..Len(keys) :
          keys[i] = target /\ \A j \in 1..(i - 1) : keys[j] # target) - 1
  ELSE -1

indexOfKeyThrows(keys, target) == Len(keys) > 0 /\ target = Undefined

\* arr[i] of a JavaScript array, 0-based
At(arr, i) == IF i + 1 <= Len(arr) THEN arr[i + 1] ELSE Undefined

\* balances.find(b => b.accountIndex === idx): the first such entry, or
\* undefined (present = FALSE)
HasBalance(balances, idx) == \E i \in 1..Len(balances) : balances[i].accountIndex = idx

FindBalance(balances, idx) ==
  IF HasBalance(balances, idx)
  THEN LET b == balances[CHOOSE i \in 1..Len(balances) :
                           /\ balances[i].accountIndex = idx
                           /\ \A j \in 1..(i - 1) : balances[j].accountIndex # idx]
       IN [present |-> TRUE, mint |-> b.mint, amount |-> b.amount]
  ELSE [present |-> FALSE, mint |-> Undefined, amount |-> 0]

\* the difference taken the other way round, before minus after
diffReversed(bef, aft) ==
  (IF bef.present THEN bef.amount ELSE 0) - (IF aft.present THEN aft.amount ELSE 0)

\* (aft ? BigInt(aft.uiTokenAmount.amount) : 0n) - (bef ? BigInt(...) : 0n)
diffAmount(bef, aft) ==
  (IF aft.present THEN aft.amount ELSE 0) - (IF bef.present THEN bef.amount ELSE 0)

\* Number(x) / scale, kept as the exact fraction
toFloatA(x) == [num |-> x, den |-> scaleA]
toFloatB(x) == [num |-> x, den |-> scaleB]
\* b / a instead of a / b
FDivInverted(a, b) == [num |-> b.num * a.den, den |-> b.den * a.num]

\* a / b of two fractions
FDiv(a, b) == [num |-> a.num * b.den, den |-> a.den * b.num]

(***************************************************************************)
(* The transactions the ledger can hold, by kind.  msgKeys is the account  *)
(* list of the message; the swap instruction of spl-token-swap references  *)
(* swap, authority, transfer authority, user source, pool source, pool     *)
(* destination, user destination, pool mint, fee account.                  *)
(***************************************************************************)
MsgKeys ==
  <<"payer", "swap", "authority", "userA", "vaultA", "vaultB", "userB",
    "poolMint", "fee", "TokenSwap", "Token">>

Bal(idx, mint, amount) == [accountIndex |-> idx, mint |-> mint, amount |-> amount]

\* user A-account 3, vault A 4, vault B 5, user B-account 6 (0-based)
PreAB  == <<Bal(3, "mintA", 500), Bal(4, "mintA", 1000), Bal(5, "mintB", 400), Bal(6, "mintB", 0)>>
PostAB == <<Bal(3, "mintA", 300), Bal(4, "mintA", 1200), Bal(5, "mintB", 360), Bal(6, "mintB", 40)>>

Zeros(n) == [i \in 1..n |-> 0]
\* tag, amountIn (LE64), minAmountOut (LE64)
Payload(tag, amountIn, minOut) ==
  <<tag>> \o <<amountIn % 256, amountIn \div 256>> \o Zeros(6)
          \o <<minOut % 256, minOut \div 256>> \o Zeros(6)

SwapAccounts ==
  <<"swap", "authority", "payer", "userA", "vaultA", "vaultB", "userB", "poolMint", "fee">>

Inst(programId, accounts, data) ==
  [programId |-> programId, accounts |-> accounts, data |-> data]

SwapInst == Inst("TokenSwap", SwapAccounts, Payload(1, 200, 1))
\* fewer than 7 referenced accounts: the swap program fails it, so the
\* balances of its transaction ("short") are those before it
ShortInst == Inst("TokenSwap", <<"swap", "authority", "payer", "userA">>, Payload(1, 200, 1))
\* the 4th referenced account is no key of the message
StrangerInst ==
  Inst("TokenSwap",
       <<"swap", "authority", "payer", "stranger", "vaultA", "vaultB", "userB", "poolMint", "fee">>,
       Payload(1, 200, 1))
TransferInst == Inst("Token", <<"userA", "userB", "payer">>, <<3, 1>>)

Tx(keys, pre, post, insts) ==
  [accountKeys |-> keys, preTokenBalances |-> pre, postTokenBalances |-> post,
   instructions |-> insts]

TxOfKind(kind) ==
  CASE kind = "swap"       -> Tx(MsgKeys, PreAB, PostAB, <<SwapInst>>)
    [] kind = "twoswap"    -> Tx(MsgKeys, PreAB, PostAB, <<SwapInst, SwapInst>>)
    [] kind = "short"      -> Tx(MsgKeys, PreAB, PreAB, <<ShortInst>>)
    [] kind = "unresolved" -> Tx(MsgKeys, PreAB, PostAB, <<StrangerInst, SwapInst>>)
    [] kind = "transfer"   -> Tx(MsgKeys, PreAB, PostAB, <<TransferInst>>)
    [] kind = "nobalances" -> Tx(MsgKeys, <<>>, <<>>, <<SwapInst>>)

AllKinds == {"swap", "twoswap", "short", "unresolved", "transfer", "nobalances"}

\* the kinds of transaction that land on the ledger in Spec
LedgerKinds == {"swap", "twoswap", "short"}

\* tx.blockTime: unix seconds; two consecutive transactions may share one
BlockTime(sig) == (sig + 1) \div 2

(***************************************************************************)
(* handleTx, lines 300-386: what one fetched transaction appends.          *)
(***************************************************************************)
toPubkeyArray(tx) == tx.accountKeys

\* tx.transaction.message.instructions.filter(i => i.programId.equals(...))
SwapProgramInstructions(tx) ==
  SelectSeq(tx.instructions, LAMBDA i : i.programId = TOKEN_SWAP_PROGRAM_ID)

NoEvent == [timestamp |-> 0, signature |-> 0]

\* One pass of the body of the for loop at line 313 for instruction inst:
\* outcome "event" (chartData.push), "rejected" (continue) or "threw".
EvaluateInstruction(tx, signature, inst) ==
  LET msgKeys == toPubkeyArray(tx)
      pre     == tx.preTokenBalances
      post    == tx.postTokenBalances
      rejected == [outcome |-> "rejected", event |-> NoEvent]
      threw    == [outcome |-> "threw", event |-> NoEvent]
  IN
  IF decodeSwapInstruction(inst.data).isNull THEN rejected
  ELSE IF indexOfKeyThrows(msgKeys, At(inst.accounts, 3)) THEN threw
  ELSE IF indexOfKeyThrows(msgKeys, At(inst.accounts, 6)) THEN threw
  ELSE
  LET srcIdx == indexOfKey(msgKeys, At(inst.accounts, 3))
      dstIdx == indexOfKey(msgKeys, At(inst.accounts, 6))
  IN
  IF srcIdx < 0 \/ dstIdx < 0 THEN rejected
  ELSE
  LET preSrc  == FindBalance(pre, srcIdx)
      postSrc == FindBalance(post, srcIdx)
      preDst  == FindBalance(pre, dstIdx)
      postDst == FindBalance(post, dstIdx)
  IN
  IF ~preSrc.present \/ ~postSrc.present \/ ~preDst.present \/ ~postDst.present
  THEN rejected
  ELSE
  LET inD  == diffAmount(preSrc, postSrc)
      outD == diffAmount(preDst, postDst)
  IN
  IF inD >= 0 \/ outD <= 0 THEN rejected
  ELSE
  LET amountIn    == -inD
      amountOut   == outD
      baseIsApple == preSrc.mint = mintAAddress
      vAIdx == indexOfKey(msgKeys, vaultAAddress)
      vBIdx == indexOfKey(msgKeys, vaultBAddress)
  IN
  IF vAIdx < 0 \/ vBIdx < 0 THEN rejected
  ELSE
  LET postVA == FindBalance(post, vAIdx)
      postVB == FindBalance(post, vBIdx)
  IN
  IF ~postVA.present \/ ~postVB.present THEN rejected
  ELSE
  LET reserveA    == postVA.amount
      reserveB    == postVB.amount
      poolPrice   == FDiv(toFloatB(reserveB), toFloatA(reserveA))
      amountBase  == IF baseIsApple THEN amountIn ELSE amountOut
      amountQuote == IF baseIsApple THEN amountOut ELSE amountIn
      price       == FDiv(toFloatB(amountQuote), toFloatA(amountBase))
      absAmountIn  == IF baseIsApple THEN toFloatA(amountIn) ELSE toFloatB(amountIn)
      absAmountOut == IF baseIsApple THEN toFloatA(amountOut) ELSE toFloatB(amountOut)
  IN
  [outcome |-> "event",
   event |-> [timestamp   |-> BlockTime(signature),
              signature   |-> signature,
              swappedFrom |-> preSrc.mint,
              swappedTo   |-> preDst.mint,
              amountBase  |-> toFloatA(amountBase),
              amountQuote |-> toFloatB(amountQuote),
              amountIn    |-> absAmountIn,
              amountOut   |-> absAmountOut,
              price       |-> price,
              poolPrice   |-> poolPrice]]

\* a loop that a rejected instruction ends
RECURSIVE LoopEndedByRejection(_, _, _, _)
LoopEndedByRejection(tx, signature, swaps, i) ==
  IF i > Len(swaps) THEN [events |-> <<>>, threw |-> FALSE]
  ELSE LET r == EvaluateInstruction(tx, signature, swaps[i]) IN
       IF r.outcome = "threw" THEN [events |-> <<>>, threw |-> TRUE]
       ELSE IF r.outcome = "rejected" THEN [events |-> <<>>, threw |-> FALSE]
       ELSE LET rest == LoopEndedByRejection(tx, signature, swaps, i + 1) IN
            [events |-> <<r.event>> \o rest.events, threw |-> rest.threw]

\* The for loop at line 313 from instruction i on: the events pushed, in
\* order, and whether an instruction threw (the loop stops there).
RECURSIVE InstructionLoop(_, _, _, _)
InstructionLoop(tx, signature, swaps, i) ==
  IF i > Len(swaps) THEN [events |-> <<>>, threw |-> FALSE]
  ELSE LET r == EvaluateInstruction(tx, signature, swaps[i]) IN
       IF r.outcome = "threw" THEN [events |-> <<>>, threw |-> TRUE]
       ELSE LET rest == InstructionLoop(tx, signature, swaps, i + 1) IN
            [events |-> (IF r.outcome = "event" THEN <<r.event>> ELSE <<>>) \o rest.events,
             threw  |-> rest.threw]

\* Lines 300-386 for a fetched transaction: how handleTx ends ("return":
\* one of the early returns at 302 and 311, "end": the loop ran to its end,
\* "threw"), and the events pushed until then.
Reconstruct(tx, signature) ==
  IF Len(tx.preTokenBalances) = 0 \/ Len(tx.postTokenBalances) = 0
  THEN [ending |-> "return", events |-> <<>>]
  ELSE LET swaps == SwapProgramInstructions(tx) IN
       IF Len(swaps) = 0 THEN [ending |-> "return", events |-> <<>>]
       ELSE LET r == InstructionLoop(tx, signature, swaps, 1) IN
            [ending |-> IF r.threw THEN "threw" ELSE "end", events |-> r.events]

\* Lines 389-394: seen, in insertion order, after the trimming
TrimSeen(s) ==
  IF Len(s) > SeenTrimAbove /\ Len(s) > SeenTrimTo
  THEN SubSeq(s, Len(s) - SeenTrimTo + 1, Len(s))
  ELSE s

(***************************************************************************)
(* State.                                                                  *)
(***************************************************************************)
VARIABLES
  ledger,              \* the swap account's transactions, oldest first: their kinds
  store,               \* table swap_data, rows in rowid order
  phase,               \* "startup": runIndexer is in the backfill of line 482;
                       \* "running": lines 485-516 have run; "halted": runIndexer
                       \* rejected; "down": the process has exited
  feed,                \* the RPC WebSocket: "unopened", "open", "closed"
  pending,             \* signatures the live feed has a notification for
  seen,                \* the Set seen, in insertion order
  chartData,
  lastSavedSignature,
  lastFlushed,
  backfills,           \* the backfill calls in flight, oldest first
  liveCalls,           \* handleTx calls of the onLogs callback awaiting their
                       \* getParsedTransaction: how many per signature
  used,                \* how many events of the environment there have been
  boots,               \* how many times the process has been restarted
  failed,              \* history: signatures whose fetch has failed in this run
                       \* and has not succeeded since
  skippedFailed,       \* history: those of them a later backfill pass handed
                       \* to handleTx, which returned at the seen check
  lastPass,            \* history: the backfill pass that ended last in this run
  startupLedger,       \* history: ledger length the startup backfill of this
                       \* run saw at its first page, -1 until it has returned
  landedInOutage,      \* history: signatures that landed in this run while
                       \* the feed was closed
  lastExit,            \* history: how the process went down last, and, for
                       \* graceful, what it held at process.exit()
  fetched,             \* a handleTx call under study: its signature, how its
                       \* getParsedTransaction settles (outcome) and with which
                       \* transaction, where the call is (pc: "called" at line
                       \* 291, "fetching" in the await of line 295, "loop" in
                       \* the for of line 313 with at instructions done,
                       \* "done"); handled: the call has ended
  payload,             \* the bytes a decodeSwapInstruction call under study got
  decoded,             \* what that call returned
  request,             \* a GET /v1/main/chart under study: count and after
  response             \* what res.json was given

history == <<failed, skippedFailed, lastPass, startupLedger, landedInOutage, lastExit>>

\* the calls studied on their own, one per specification
calls == <<fetched, payload, decoded, request, response>>

vars ==
  <<ledger, store, phase, feed, pending, seen, chartData, lastSavedSignature,
    lastFlushed, backfills, liveCalls, used, boots, history, calls>>

\* no call is under study
NoFetched  ==
  [tx |-> <<>>, signature |-> 0, handled |-> TRUE, outcome |-> "ok", pc |-> "done", at |-> 0]
\* a handleTx call whose getParsedTransaction has resolved with tx
Fetched(tx, signature) ==
  [tx |-> tx, signature |-> signature, handled |-> FALSE, outcome |-> "ok",
   pc |-> "fetching", at |-> 0]
NoDecoded  == [returned |-> FALSE, value |-> <<>>]
NoRequest  == [count |-> 0, after |-> 0, answered |-> TRUE]

NoCalls ==
  /\ fetched = NoFetched
  /\ payload = <<>>
  /\ decoded = NoDecoded
  /\ request = NoRequest
  /\ response = <<>>

Sigs == 1..MaxTx

Reverse(s) == [i \in 1..Len(s) |-> s[Len(s) - i + 1]]
Min(a, b) == IF a < b THEN a ELSE b
Has(s, x) == \E i \in 1..Len(s) : s[i] = x
\* Set.prototype.add
SetAdd(s, x) == IF Has(s, x) THEN s ELSE Append(s, x)
Remove(s, k) == SubSeq(s, 1, k - 1) \o SubSeq(s, k + 1, Len(s))

\* connection.getSignaturesForAddress(swapAccountPk, {before, until, limit}):
\* the signatures older than before and newer than until, newest first, at
\* most limit of them
getSignaturesForAddress(before, until, limit) ==
  LET hi == IF before = 0 THEN Len(ledger) ELSE before - 1
      n  == IF hi > until THEN Min(limit, hi - until) ELSE 0
  IN [i \in 1..n |-> hi - i + 1]

NoPass == [kind |-> "none", since |-> 0, n0 |-> -1, visited |-> <<>>, ending |-> "none"]

NewBackfill(kind, fromSig) ==
  [kind |-> kind, since |-> fromSig, before |-> 0, pc |-> "page",
   first |-> 0, cur |-> 0, rest |-> <<>>, visited |-> <<>>, n0 |-> -1]

EndOfPass(t, ending) ==
  [kind |-> t.kind, since |-> t.since, n0 |-> t.n0, visited |-> t.visited,
   ending |-> ending]

\* The for loop of backfill (lines 270-274) from the next signature of the
\* page on, up to the await that does not settle at once: handleTx returns
\* at line 291 for the signatures in seen; for the first one that is not,
\* it adds it to seen and awaits getParsedTransaction (pc "tx"); with the
\* page at its end, before is set and the next page awaited (pc "page").
RECURSIVE Advance(_, _, _)
Advance(t, seenNow, skipped) ==
  IF Len(t.rest) = 0
  THEN [task |-> [t EXCEPT !.pc = "page", !.before = t.first, !.cur = 0],
        seen |-> seenNow, skipped |-> skipped]
  ELSE IF Has(seenNow, Head(t.rest))
  THEN Advance([t EXCEPT !.rest = Tail(t.rest), !.visited = Append(t.visited, Head(t.rest))],
               seenNow, skipped \cup {Head(t.rest)})
  ELSE [task |-> [t EXCEPT !.rest = Tail(t.rest),
                           !.visited = Append(t.visited, Head(t.rest)),
                           !.pc = "tx", !.cur = Head(t.rest)],
        seen |-> Append(seenNow, Head(t.rest)), skipped |-> skipped]

\* Reconstruct for each transaction the ledger can hold, worked out once
Reconstructed ==
  [kind \in AllKinds, signature \in Sigs |-> Reconstruct(TxOfKind(kind), signature)]

\* handleTx from line 298 on, with the outcome of getParsedTransaction
\* ("ok", "null", "throw") for signature: how it ends and what it leaves.
HandleTxEnding(signature, outcome) ==
  IF outcome = "throw" THEN "fetch-threw"
  ELSE IF outcome = "null" THEN "return"
  ELSE IF Reconstructed[ledger[signature], signature].ending = "threw" THEN "instruction-threw"
  ELSE Reconstructed[ledger[signature], signature].ending

HandleTxBody(signature, outcome) ==
  [ending    |-> HandleTxEnding(signature, outcome),
   chartData |-> IF outcome = "ok"
                 THEN chartData \o Reconstructed[ledger[signature], signature].events
                 ELSE chartData,
   seen      |-> IF HandleTxEnding(signature, outcome) = "end" THEN TrimSeen(seen) ELSE seen,
   lastSavedSignature |-> IF HandleTxEnding(signature, outcome) = "end" THEN signature
                          ELSE lastSavedSignature]

Threw(ending) == ending \in {"fetch-threw", "instruction-threw"}

\* a failing fetch is an event of the environment
FetchOutcomes == IF used < MaxEvents THEN {"ok", "null", "throw"} ELSE {"ok"}

NoteFetch(signature, outcome) ==
  /\ used' = IF outcome = "ok" THEN used ELSE used + 1
  /\ failed' = IF outcome = "ok" THEN failed \ {signature} ELSE failed \cup {signature}

(***************************************************************************)
(* The durable store.                                                      *)
(***************************************************************************)
HasRow(rows, signature) == \E i \in 1..Len(rows) : rows[i].signature = signature

\* a plain INSERT INTO a table that has no key on signature
InsertPlain(rows, c) == Append(rows, c)

\* an insert into a table that keeps its newest row only
InsertTruncating(rows, c) == <<c>>

\* INSERT OR IGNORE INTO swap_data, signature being the primary key
InsertOrIgnore(rows, c) == IF HasRow(rows, c.signature) THEN rows ELSE Append(rows, c)

\* the loop of lines 241-255 from chartData[i] (1-based) on
RECURSIVE InsertFrom(_, _, _)
InsertFrom(rows, data, i) ==
  IF i > Len(data) THEN rows
  ELSE InsertFrom(InsertOrIgnore(rows, data[i]), data, i + 1)

\* SELECT * FROM swap_data ORDER BY timestamp ASC: the rows in an order
\* that is ascending in timestamp; SQL leaves the order of equal timestamps
\* open
\* a SELECT with no ORDER BY: the rows in rowid order
SelectInRowidOrder(rows) == {rows}

IsPermutation(f, n) == \A i \in 1..n : \E j \in 1..n : f[j] = i

SelectOrderByTimestamp(rows) ==
  { [i \in 1..Len(rows) |-> rows[f[i]]] :
      f \in { g \in [1..Len(rows) -> 1..Len(rows)] :
                /\ IsPermutation(g, Len(rows))
                /\ \A i \in 1..(Len(rows) - 1) :
                     rows[g[i]].timestamp <= rows[g[i + 1]].timestamp } }

RECURSIVE AddAll(_, _, _)
AddAll(s, rows, i) ==
  IF i > Len(rows) THEN s ELSE AddAll(SetAdd(s, rows[i].signature), rows, i + 1)

(***************************************************************************)
(* Start and end of the process.                                           *)
(***************************************************************************)
NoExit == [by |-> "none", events |-> {}, view |-> <<>>, inFlight |-> 0, unflushed |-> 0]

NoHistory ==
  /\ failed' = {}
  /\ skippedFailed' = {}
  /\ lastPass' = NoPass
  /\ startupLedger' = -1
  /\ landedInOutage' = {}

\* runIndexer, lines 469-482, with the rows the SELECT returned
Boot(rows) ==
  /\ chartData' = rows
  /\ seen' = AddAll(<<>>, rows, 1)
  /\ lastFlushed' = Len(rows)
  /\ lastSavedSignature' = IF Len(rows) > 0 THEN rows[Len(rows)].signature ELSE 0
  /\ backfills' = <<NewBackfill("startup", lastSavedSignature')>>
  /\ phase' = "startup"
  /\ feed' = "unopened"
  /\ pending' = {}
  /\ liveCalls' = [s \in Sigs |-> 0]
  /\ NoHistory
  /\ lastExit' = NoExit

\* the first start, on an empty store, up to the await of line 482
InitIndexer ==
  /\ ledger = <<>>
  /\ store = <<>>
  /\ chartData = <<>>
  /\ seen = <<>>
  /\ lastFlushed = 0
  /\ lastSavedSignature = 0
  /\ backfills = <<NewBackfill("startup", 0)>>
  /\ phase = "startup"
  /\ feed = "unopened"
  /\ pending = {}
  /\ liveCalls = [s \in Sigs |-> 0]
  /\ used = 0
  /\ boots = 0
  /\ failed = {}
  /\ skippedFailed = {}
  /\ lastPass = NoPass
  /\ startupLedger = -1
  /\ landedInOutage = {}
  /\ lastExit = NoExit

Init == InitIndexer /\ NoCalls

Restart ==
  /\ phase = "down"
  /\ used < MaxEvents
  /\ used' = used + 1
  /\ boots' = boots + 1
  /\ \E rows \in SelectOrderByTimestamp(store) : Boot(rows)
  /\ UNCHANGED <<ledger, store>>
  /\ UNCHANGED calls

\* the memory of the process is gone
Exit ==
  /\ phase' = "down"
  /\ feed' = "unopened"
  /\ pending' = {}
  /\ seen' = <<>>
  /\ chartData' = <<>>
  /\ lastSavedSignature' = 0
  /\ lastFlushed' = 0
  /\ backfills' = <<>>
  /\ liveCalls' = [s \in Sigs |-> 0]
  /\ NoHistory

\* the process is killed, or dies of an unhandled rejection
Crash ==
  /\ phase # "down"
  /\ Exit
  /\ lastExit' = [NoExit EXCEPT !.by = "crash"]
  /\ UNCHANGED <<ledger, store, used, boots>>
  /\ UNCHANGED calls

(***************************************************************************)
(* The ledger and the live feed.                                           *)
(***************************************************************************)
MentionsSwapProgram(kind) ==
  \E i \in 1..Len(TxOfKind(kind).instructions) :
    TxOfKind(kind).instructions[i].programId = TOKEN_SWAP_PROGRAM_ID

\* a transaction of the swap account lands; the feed, when it is open,
\* has a notification for it if the swap program logged in it
LedgerAppend(kind) ==
  /\ Len(ledger) < MaxTx
  /\ ledger' = Append(ledger, kind)
  /\ pending' = IF phase = "running" /\ feed = "open" /\ MentionsSwapProgram(kind)
                THEN pending \cup {Len(ledger) + 1} ELSE pending
  /\ landedInOutage' = IF phase = "running" /\ feed = "closed"
                       THEN landedInOutage \cup {Len(ledger) + 1} ELSE landedInOutage
  /\ UNCHANGED <<store, phase, feed, seen, chartData, lastSavedSignature, lastFlushed,
                 backfills, liveCalls, used, boots, failed, skippedFailed, lastPass,
                 startupLedger, lastExit>>
  /\ UNCHANGED calls

\* rpcWs 'close' (lines 508-510): a log line; the notifications are lost
Disconnect ==
  /\ phase = "running"
  /\ feed = "open"
  /\ feed' = "closed"
  /\ pending' = {}
  /\ UNCHANGED <<ledger, store, phase, seen, chartData, lastSavedSignature,
                 lastFlushed, backfills, liveCalls, used, boots, history>>
  /\ UNCHANGED calls

\* rpcWs 'open' (lines 513-516): backfill(lastSavedSignature) is called and
\* awaits its first page
Open ==
  /\ phase = "running"
  /\ feed # "open"
  /\ used < MaxEvents
  /\ used' = used + 1
  /\ feed' = "open"
  /\ backfills' = Append(backfills, NewBackfill("open", lastSavedSignature))
  /\ UNCHANGED <<ledger, store, phase, pending, seen, chartData, lastSavedSignature,
                 lastFlushed, liveCalls, boots, history>>
  /\ UNCHANGED calls

(***************************************************************************)
(* backfill, lines 260-276.                                                *)
(***************************************************************************)
\* the backfill call has thrown or returned: runIndexer goes on to lines
\* 485-516 when its own call returns and rejects when it throws
PassEnds(k, t, ending) ==
  /\ backfills' = Remove(backfills, k)
  /\ lastPass' = EndOfPass(t, ending)
  /\ phase' = IF t.kind # "startup" THEN phase
              ELSE IF ending = "returned" THEN "running" ELSE "halted"
  /\ startupLedger' = IF t.kind = "startup" /\ ending = "returned" THEN t.n0
                      ELSE startupLedger

\* backfill call k, in state t, goes on with the rest of its page
BackfillAdvance(k, t, seenNow, failedNow) ==
  \E a \in {Advance(t, seenNow, {})} :
    /\ backfills' = [backfills EXCEPT ![k] = a.task]
    /\ seen' = a.seen
    /\ skippedFailed' = skippedFailed \cup (a.skipped \cap failedNow)
    /\ UNCHANGED <<phase, lastPass, startupLedger>>

\* getSignaturesForAddress has returned a page to backfill call k
BackfillPageReturn(k) ==
  /\ phase \in {"startup", "running"}
  /\ k \in 1..Len(backfills)
  /\ backfills[k].pc = "page"
  /\ \E t \in {[backfills[k] EXCEPT !.n0 = IF @ = -1 THEN Len(ledger) ELSE @]} :
     \E sigs \in {getSignaturesForAddress(t.before, t.since, PageLimit)} :
       IF Len(sigs) = 0
       THEN /\ PassEnds(k, t, "returned")
            /\ UNCHANGED <<seen, skippedFailed>>
       ELSE \E rev \in {Reverse(sigs)} :
              BackfillAdvance(k, [t EXCEPT !.first = rev[1], !.rest = rev], seen, failed)
  /\ UNCHANGED <<ledger, store, feed, pending, chartData, lastSavedSignature,
                 lastFlushed, liveCalls, used, boots, failed, landedInOutage,
                 lastExit>>
  /\ UNCHANGED calls

\* getParsedTransaction has settled for the handleTx call of backfill call k
BackfillTxReturn(k, outcome) ==
  /\ phase \in {"startup", "running"}
  /\ k \in 1..Len(backfills)
  /\ backfills[k].pc = "tx"
  /\ outcome \in FetchOutcomes
  /\ NoteFetch(backfills[k].cur, outcome)
  /\ \E t \in {backfills[k]} :
     \E b \in {HandleTxBody(t.cur, outcome)} :
       /\ chartData' = b.chartData
       /\ lastSavedSignature' = b.lastSavedSignature
       /\ IF Threw(b.ending)
          THEN /\ PassEnds(k, t, b.ending)
               /\ seen' = b.seen
               /\ UNCHANGED skippedFailed
          ELSE BackfillAdvance(k, t, b.seen, failed')
  /\ UNCHANGED <<ledger, store, feed, pending, lastFlushed, liveCalls, boots,
                 landedInOutage, lastExit>>
  /\ UNCHANGED calls

(***************************************************************************)
(* The onLogs callback, lines 496-502.                                     *)
(***************************************************************************)
\* a notification is delivered: handleTx(l.signature) runs to its first await
LiveNotify(signature) ==
  /\ phase = "running"
  /\ feed = "open"
  /\ signature \in pending
  /\ used < MaxEvents
  /\ used' = used + 1
  /\ IF Has(seen, signature)
     THEN UNCHANGED <<seen, liveCalls>>
     ELSE /\ seen' = Append(seen, signature)
          /\ liveCalls' = [liveCalls EXCEPT ![signature] = @ + 1]
  /\ UNCHANGED <<ledger, store, phase, feed, pending, chartData, lastSavedSignature,
                 lastFlushed, backfills, boots, history>>
  /\ UNCHANGED calls

\* getParsedTransaction has settled for a handleTx call of the callback
LiveTxReturn(signature, outcome) ==
  /\ phase = "running"
  /\ liveCalls[signature] > 0
  /\ outcome \in FetchOutcomes
  /\ \E b \in {HandleTxBody(signature, outcome)} :
       /\ chartData' = b.chartData
       /\ lastSavedSignature' = b.lastSavedSignature
       /\ seen' = b.seen
  /\ NoteFetch(signature, outcome)
  /\ liveCalls' = [liveCalls EXCEPT ![signature] = @ - 1]
  /\ UNCHANGED <<ledger, store, phase, feed, pending, lastFlushed, backfills, boots,
                 skippedFailed, lastPass, startupLedger, landedInOutage, lastExit>>
  /\ UNCHANGED calls

(***************************************************************************)
(* flushToDB (lines 231-258), on the timer of line 485 and in graceful.    *)
(***************************************************************************)
FlushedButFirst == InsertFrom(store, chartData, lastFlushed + 2)

\* the store once flushToDB has run
FlushedStore == InsertFrom(store, chartData, lastFlushed + 1)

\* a timer of line 485 that is set before the startup backfill
flushToDBFromStartup ==
  /\ phase \in {"startup", "running"}
  /\ Len(chartData) # lastFlushed
  /\ store' = FlushedStore
  /\ lastFlushed' = Len(chartData)
  /\ UNCHANGED <<ledger, phase, feed, pending, seen, chartData, lastSavedSignature,
                 backfills, liveCalls, used, boots, history>>
  /\ UNCHANGED calls

flushToDB ==
  /\ phase = "running"
  /\ Len(chartData) # lastFlushed
  /\ store' = FlushedStore
  /\ lastFlushed' = Len(chartData)
  /\ UNCHANGED <<ledger, phase, feed, pending, seen, chartData, lastSavedSignature,
                 backfills, liveCalls, used, boots, history>>
  /\ UNCHANGED calls

\* handleTx calls between their start and their end
InFlight ==
  Cardinality({k \in 1..Len(backfills) : backfills[k].pc = "tx"})
  + Cardinality({s \in Sigs : liveCalls[s] > 0})

\* SIGINT / SIGTERM with the handler of lines 488-493 installed
graceful ==
  /\ phase = "running"
  /\ store' = IF Len(chartData) = lastFlushed THEN store ELSE FlushedStore
  /\ Exit
  /\ lastExit' = [by |-> "graceful",
                  events |-> {chartData[i].signature : i \in 1..Len(chartData)},
                  view |-> chartData,
                  inFlight |-> InFlight,
                  unflushed |-> Len(chartData) - lastFlushed]
  /\ UNCHANGED <<ledger, used, boots>>
  /\ UNCHANGED calls

(***************************************************************************)
(* Specifications.  Spec: every kind of transaction lands and the RPC node *)
(* may fail a fetch.  SpecReliable: only well-formed swaps land and every  *)
(* fetch succeeds.                                                         *)
(***************************************************************************)
Step(kinds, outcomes) ==
  \/ \E kind \in kinds : LedgerAppend(kind)
  \/ \E k \in 1..(MaxEvents + 1) : BackfillPageReturn(k)
  \/ \E k \in 1..(MaxEvents + 1), o \in outcomes : BackfillTxReturn(k, o)
  \/ \E s \in Sigs : LiveNotify(s)
  \/ \E s \in Sigs, o \in outcomes : LiveTxReturn(s, o)
  \/ flushToDB
  \/ graceful
  \/ Crash
  \/ Restart
  \/ Disconnect
  \/ Open

Next == Step(LedgerKinds, {"ok", "null", "throw"})

Spec == Init /\ [][Next]_vars

ReliableKinds == {"swap", "twoswap"}

NextReliable == Step(ReliableKinds, {"ok"})

SpecReliable == Init /\ [][NextReliable]_vars

(***************************************************************************)
(* decodeSwapInstruction on its own: SpecDecode draws a payload and calls  *)
(* it.  The bytes that are not 0 sit in the low four bytes of each amount, *)
(* the fourth below 128, so that the amounts stay below 2^31.              *)
(***************************************************************************)
\* the variables of the indexer
indexer ==
  <<ledger, store, phase, feed, pending, seen, chartData, lastSavedSignature,
    lastFlushed, backfills, liveCalls, used, boots, history>>

MaxPayloadLen == 18

Word64s ==
  { <<a, b, 0, c, 0, 0, 0, 0>> : a \in {0, 1, 255}, b \in {0, 255}, c \in {0, 127} }

Payloads ==
  { SubSeq(<<tag>> \o w1 \o w2 \o <<7, 7, 7>>, 1, n) :
      tag \in {0, 1, 2}, w1 \in Word64s, w2 \in Word64s,
      n \in {0, 1, 16, 17, MaxPayloadLen} }

InitDecode ==
  /\ InitIndexer
  /\ payload \in Payloads
  /\ decoded = NoDecoded
  /\ fetched = NoFetched
  /\ request = NoRequest
  /\ response = <<>>

Decode ==
  /\ ~decoded.returned
  /\ decoded' = [returned |-> TRUE, value |-> decodeSwapInstruction(payload)]
  /\ UNCHANGED <<indexer, fetched, payload, request, response>>

NextDecode == Decode

SpecDecode == InitDecode /\ [][NextDecode]_vars

(***************************************************************************)
(* The reconstruction of handleTx on its own: SpecReconstruct draws the    *)
(* transaction getParsedTransaction returned, with one instruction of the  *)
(* swap program, and runs lines 298-386 on it.                             *)
(***************************************************************************)
\* the message keys of a swap in another pool of the swap program
OtherPoolKeys ==
  <<"payer", "swap2", "authority2", "userA", "vaultC", "vaultD", "userB",
    "poolMint2", "fee2", "TokenSwap", "Token">>

\* the token balance entries of one account: none when amount is -1
BalanceOf(idx, mint, amount) == IF amount = -1 THEN <<>> ELSE <<Bal(idx, mint, amount)>>

\* user A-account 3, vaults 4 and 5, user B-account 6
Balances(userA, userB, vaultA, vaultB) ==
  BalanceOf(3, "mintA", userA) \o <<Bal(4, "mintA", vaultA), Bal(5, "mintB", vaultB)>>
    \o BalanceOf(6, "mintB", userB)

\* the referenced accounts of a swap from the user's account src to dst
AccountsOf(keys, src, dst) ==
  <<keys[2], keys[3], "payer", src, keys[5], keys[6], dst, keys[8], keys[9]>>

FetchedTxs ==
  { Tx(keys,
       Balances(preA, preB, 1000, 400),
       Balances(postA, postB, 1000 + (preA - postA), 400 + (preB - postB)),
       <<Inst("TokenSwap", AccountsOf(keys, d[1], d[2]), Payload(tag, 200, 1))>>) :
      keys \in {MsgKeys, OtherPoolKeys},
      d \in {<<"userA", "userB">>, <<"userB", "userA">>},
      tag \in {1, 2},
      preA \in {-1, 300, 500}, postA \in {-1, 300, 500},
      preB \in {-1, 0, 40},    postB \in {-1, 0, 40} }

InitReconstruct ==
  /\ InitIndexer
  /\ fetched \in { Fetched(tx, 1) : tx \in FetchedTxs }
  /\ payload = <<>>
  /\ decoded = NoDecoded
  /\ request = NoRequest
  /\ response = <<>>

\* handleTx from line 298 to line 386 on the fetched transaction
ReconstructFetched ==
  /\ ~fetched.handled
  /\ chartData' = chartData \o Reconstruct(fetched.tx, fetched.signature).events
  /\ fetched' = [fetched EXCEPT !.handled = TRUE, !.pc = "done"]
  /\ UNCHANGED <<ledger, store, phase, feed, pending, seen, lastSavedSignature,
                 lastFlushed, backfills, liveCalls, used, boots, history>>
  /\ UNCHANGED <<payload, decoded, request, response>>

NextReconstruct == ReconstructFetched

SpecReconstruct == InitReconstruct /\ [][NextReconstruct]_vars

(***************************************************************************)
(* The instruction loop of handleTx on its own: SpecInstructions draws a   *)
(* fetched transaction with up to MaxInstructions instructions and runs    *)
(* lines 298-386 on it.  The transaction moves 200 of mint A out of userA  *)
(* and 40 of mint B into userB, unless one of its instructions is one the  *)
(* swap program fails: a failed transaction leaves the balances as they    *)
(* were.                                                                   *)
(***************************************************************************)
MaxInstructions == 3

\* a swap the other way round, from userB to userA
ReversedInst ==
  Inst("TokenSwap",
       <<"swap", "authority", "payer", "userB", "vaultB", "vaultA", "userA", "poolMint", "fee">>,
       Payload(1, 20, 1))
\* an instruction of the swap program with another tag
DepositInst == Inst("TokenSwap", SwapAccounts, Payload(2, 200, 1))

Instructions ==
  {SwapInst, ReversedInst, DepositInst, StrangerInst, TransferInst, ShortInst}

InstructionLists == UNION { [1..n -> Instructions] : n \in 0..MaxInstructions }

FetchedLists ==
  { Tx(MsgKeys, PreAB,
       IF \E i \in 1..Len(insts) : insts[i] = ShortInst THEN PreAB ELSE PostAB,
       insts) : insts \in InstructionLists }

InitInstructions ==
  /\ InitIndexer
  /\ fetched \in { Fetched(tx, 1) : tx \in FetchedLists }
  /\ payload = <<>>
  /\ decoded = NoDecoded
  /\ request = NoRequest
  /\ response = <<>>

NextInstructions == ReconstructFetched

SpecInstructions == InitInstructions /\ [][NextInstructions]_vars

(***************************************************************************)
(* The chart endpoint, GET /v1/main/chart (part_001 lines 23-39), on its   *)
(* own: SpecQuery draws the ledger the indexer has processed and a request *)
(* and runs the handler.  The indexer is the one that started on an empty  *)
(* ledger and has handled the live notification of each transaction to its *)
(* end, oldest first.                                                      *)
(***************************************************************************)
\* req.query.count ?? 10
DefaultCount == 10
\* the largest count a request is drawn with
MaxCount == 4

Max(a, b) == IF a > b THEN a ELSE b

\* Array.prototype.slice(start): from start, counted from the end when
\* start is below 0; -0 is 0
Slice(arr, start) ==
  SubSeq(arr,
         (IF start < 0 THEN Max(Len(arr) + start, 0) ELSE Min(start, Len(arr))) + 1,
         Len(arr))

\* lines 29-37: candles from behind the first entry whose signature is after
RECURSIVE AfterLoop(_, _, _)
AfterLoop(candles, after, i) ==
  IF i >= Len(candles) THEN candles
  ELSE IF candles[i + 1].signature = after THEN Slice(candles, i + 1)
  ELSE AfterLoop(candles, after, i + 1)

\* the handler: count is -1 when the request has none, after is 0 when the
\* request has none or has "null" or "undefined"
Chart(view, count, after) ==
  IF after # 0
  THEN AfterLoop(Slice(view, -(IF count = -1 THEN DefaultCount ELSE count)), after, 0)
  ELSE Slice(view, -(IF count = -1 THEN DefaultCount ELSE count))

\* chartData and seen once the transactions 1..n have been handled in order
RECURSIVE HandledInOrder(_, _)
HandledInOrder(kinds, n) ==
  IF n = 0 THEN [chartData |-> <<>>, seen |-> <<>>]
  ELSE [chartData |-> HandledInOrder(kinds, n - 1).chartData
                        \o Reconstruct(TxOfKind(kinds[n]), n).events,
        seen      |-> TrimSeen(Append(HandledInOrder(kinds, n - 1).seen, n))]

Ledgers == UNION { [1..n -> ReliableKinds] : n \in 0..MaxTx }

InitQuery ==
  /\ ledger \in Ledgers
  /\ chartData = HandledInOrder(ledger, Len(ledger)).chartData
  /\ seen = HandledInOrder(ledger, Len(ledger)).seen
  /\ lastSavedSignature = Len(ledger)
  /\ store = <<>>
  /\ lastFlushed = 0
  /\ phase = "running"
  /\ feed = "open"
  /\ pending = {}
  /\ backfills = <<>>
  /\ liveCalls = [s \in Sigs |-> 0]
  /\ used = MaxEvents
  /\ boots = 0
  /\ failed = {}
  /\ skippedFailed = {}
  /\ lastPass = [NoPass EXCEPT !.kind = "open", !.n0 = 0, !.ending = "returned"]
  /\ startupLedger = 0
  /\ landedInOutage = {}
  /\ lastExit = NoExit
  /\ request \in { [count |-> c, after |-> a, answered |-> FALSE] :
                      c \in -1..MaxCount, a \in {0} \cup Sigs }
  /\ response = <<>>
  /\ fetched = NoFetched
  /\ payload = <<>>
  /\ decoded = NoDecoded

GetChart ==
  /\ ~request.answered
  /\ response' = Chart(chartData, request.count, request.after)
  /\ request' = [request EXCEPT !.answered = TRUE]
  /\ UNCHANGED <<indexer, fetched, payload, decoded>>

NextQuery == GetChart

SpecQuery == InitQuery /\ [][NextQuery]_vars

(***************************************************************************)
(* handleTx (lines 286-398) on its own, statement by statement:            *)
(* SpecHandleTx draws an indexer that has handled the transactions before  *)
(* the newest one of the ledger in order, and a call handleTx(signature)   *)
(* of the onLogs callback for a transaction of the ledger - the newest     *)
(* one, or an older one delivered again.  Lines 298-397 run in one task of *)
(* the event loop; the steps below are the statements of that task.        *)
(***************************************************************************)
\* the rows of a store all of data has been flushed to
Flushed(data) == InsertFrom(<<>>, data, 1)

InitHandleTx ==
  /\ \E handledKinds \in Ledgers, kind \in AllKinds :
       /\ Len(handledKinds) < MaxTx
       /\ ledger = Append(handledKinds, kind)
       /\ chartData = HandledInOrder(handledKinds, Len(handledKinds)).chartData
       /\ seen = HandledInOrder(handledKinds, Len(handledKinds)).seen
       /\ lastSavedSignature = Len(handledKinds)
  /\ \/ store = <<>> /\ lastFlushed = 0
     \/ store = Flushed(chartData) /\ lastFlushed = Len(chartData)
  /\ phase = "running"
  /\ feed = "open"
  /\ pending = {}
  /\ backfills = <<>>
  /\ liveCalls = [s \in Sigs |-> 0]
  /\ used = MaxEvents
  /\ boots = 0
  /\ failed = {}
  /\ skippedFailed = {}
  /\ lastPass = [NoPass EXCEPT !.kind = "open", !.n0 = 0, !.ending = "returned"]
  /\ startupLedger = 0
  /\ landedInOutage = {}
  /\ lastExit = NoExit
  /\ fetched \in { [Fetched(TxOfKind(ledger[sig]), sig) EXCEPT !.outcome = o, !.pc = "called"] :
                      sig \in 1..Len(ledger), o \in {"ok", "null", "throw"} }
  /\ payload = <<>>
  /\ decoded = NoDecoded
  /\ request = NoRequest
  /\ response = <<>>

\* the call has ended, by a return or by a throw
Ended == [fetched EXCEPT !.pc = "done", !.handled = TRUE]

\* lines 291-295: the seen check, seen.add, the fetch is sent
handleTxCall ==
  /\ fetched.pc = "called"
  /\ IF Has(seen, fetched.signature)
     THEN /\ fetched' = Ended
          /\ UNCHANGED <<seen, liveCalls>>
     ELSE /\ seen' = Append(seen, fetched.signature)
          /\ liveCalls' = [liveCalls EXCEPT ![fetched.signature] = @ + 1]
          /\ fetched' = [fetched EXCEPT !.pc = "fetching"]
  /\ UNCHANGED <<ledger, store, phase, feed, pending, chartData, lastSavedSignature,
                 lastFlushed, backfills, used, boots, history>>
  /\ UNCHANGED <<payload, decoded, request, response>>

\* early returns that go through the trimming of seen
handleTxFetchedTrimming ==
  /\ fetched.pc = "fetching"
  /\ liveCalls' = [liveCalls EXCEPT ![fetched.signature] = @ - 1]
  /\ fetched' =
       IF fetched.outcome # "ok" THEN Ended
       ELSE IF Len(fetched.tx.preTokenBalances) = 0 \/ Len(fetched.tx.postTokenBalances) = 0
       THEN Ended
       ELSE IF Len(SwapProgramInstructions(fetched.tx)) = 0 THEN Ended
       ELSE [fetched EXCEPT !.pc = "loop"]
  /\ seen' = IF fetched'.pc = "done" THEN TrimSeen(seen) ELSE seen
  /\ UNCHANGED <<ledger, store, phase, feed, pending, chartData,
                 lastSavedSignature, lastFlushed, backfills, used, boots, history>>
  /\ UNCHANGED <<payload, decoded, request, response>>

\* lines 295-311: the fetch settles; the early returns
handleTxFetched ==
  /\ fetched.pc = "fetching"
  /\ liveCalls' = [liveCalls EXCEPT ![fetched.signature] = @ - 1]
  /\ fetched' =
       IF fetched.outcome # "ok" THEN Ended
       ELSE IF Len(fetched.tx.preTokenBalances) = 0 \/ Len(fetched.tx.postTokenBalances) = 0
       THEN Ended
       ELSE IF Len(SwapProgramInstructions(fetched.tx)) = 0 THEN Ended
       ELSE [fetched EXCEPT !.pc = "loop"]
  /\ UNCHANGED <<ledger, store, phase, feed, pending, seen, chartData,
                 lastSavedSignature, lastFlushed, backfills, used, boots, history>>
  /\ UNCHANGED <<payload, decoded, request, response>>

\* a pass of the loop body that moves the cursor as well
handleTxInstructionAndCursor ==
  /\ fetched.pc = "loop"
  /\ fetched.at < Len(SwapProgramInstructions(fetched.tx))
  /\ \E r \in {EvaluateInstruction(fetched.tx, fetched.signature,
                                    SwapProgramInstructions(fetched.tx)[fetched.at + 1])} :
       /\ chartData' = IF r.outcome = "event" THEN Append(chartData, r.event) ELSE chartData
       /\ fetched' = IF r.outcome = "threw" THEN Ended
                     ELSE [fetched EXCEPT !.at = @ + 1]
  /\ lastSavedSignature' = fetched.signature
  /\ UNCHANGED <<ledger, store, phase, feed, pending, seen,
                 lastFlushed, backfills, liveCalls, used, boots, history>>
  /\ UNCHANGED <<payload, decoded, request, response>>

\* lines 313-386: one pass of the body of the for loop
handleTxInstruction ==
  /\ fetched.pc = "loop"
  /\ fetched.at < Len(SwapProgramInstructions(fetched.tx))
  /\ \E r \in {EvaluateInstruction(fetched.tx, fetched.signature,
                                    SwapProgramInstructions(fetched.tx)[fetched.at + 1])} :
       /\ chartData' = IF r.outcome = "event" THEN Append(chartData, r.event) ELSE chartData
       /\ fetched' = IF r.outcome = "threw" THEN Ended
                     ELSE [fetched EXCEPT !.at = @ + 1]
  /\ UNCHANGED <<ledger, store, phase, feed, pending, seen, lastSavedSignature,
                 lastFlushed, backfills, liveCalls, used, boots, history>>
  /\ UNCHANGED <<payload, decoded, request, response>>

\* lines 388-397: the loop is over; the trimming of seen, the cursor
handleTxEnd ==
  /\ fetched.pc = "loop"
  /\ fetched.at = Len(SwapProgramInstructions(fetched.tx))
  /\ seen' = TrimSeen(seen)
  /\ lastSavedSignature' = fetched.signature
  /\ fetched' = Ended
  /\ UNCHANGED <<ledger, store, phase, feed, pending, chartData, lastFlushed,
                 backfills, liveCalls, used, boots, history>>
  /\ UNCHANGED <<payload, decoded, request, response>>

NextHandleTx ==
  \/ handleTxCall
  \/ handleTxFetched
  \/ handleTxInstruction
  \/ handleTxEnd

SpecHandleTx == InitHandleTx /\ [][NextHandleTx]_vars

(***************************************************************************)
(* The claims.                                                             *)
(***************************************************************************)
Count(data, signature) ==
  Cardinality({i \in 1..Len(data) : data[i].signature = signature})

Occurrences(s, x) == Cardinality({i \in 1..Len(s) : s[i] = x})

\* how many instructions of a transaction of this kind are swaps of the
\* swap program with a negative source and a positive destination delta
QualifyingSwaps(kind) ==
  CASE kind = "swap"       -> 1
    [] kind = "twoswap"    -> 2
    [] kind = "short"      -> 0
    [] kind = "unresolved" -> 1
    [] kind = "transfer"   -> 0

Quiet == Len(backfills) = 0 /\ \A s \in Sigs : liveCalls[s] = 0

\* C1 (as claimed): once the backfill of an 'open' that followed an outage
\* has ended and no handleTx is in flight, every qualifying swap of a
\* transaction that landed in the outage is in chartData exactly once.
C1_ReconnectSafety ==
  (phase = "running" /\ feed = "open" /\ lastPass.kind = "open" /\ Quiet)
    => \A s \in landedInOutage :
         s <= lastPass.n0 => Count(chartData, s) = QualifyingSwaps(ledger[s])

\* C2 (as claimed): after a restart, once the startup backfill has returned,
\* every transaction with a qualifying swap that was on the ledger when the
\* backfill began is in the recorded history.
C2_RestartCompleteness ==
  (boots >= 1 /\ phase = "running")
    => \A s \in 1..startupLedger :
         QualifyingSwaps(ledger[s]) > 0 => Count(chartData, s) >= 1

\* C3: the store never holds two rows with one signature, and no step
\* changes or removes a row the store holds (a flush of an event whose
\* signature has a row leaves that row as it is and adds none).
C3_DurableUniqueness ==
  /\ [](\A i, j \in 1..Len(store) : store[i].signature = store[j].signature => i = j)
  /\ [][/\ Len(store') >= Len(store)
        /\ \A i \in 1..Len(store) : store'[i] = store[i]]_vars

\* C3 witness: a flush has met an event whose signature had a row already
C3_Witness ==
  /\ phase = "running"
  /\ \E i, j \in 1..lastFlushed :
       /\ i < j
       /\ chartData[i].signature = chartData[j].signature
       /\ Count(store, chartData[i].signature) = 1

\* C4 (as claimed): whatever is delivered to handleTx, a signature has no
\* more entries in chartData than its transaction has qualifying swaps, and
\* no more than one row in the store.
C4_IdempotentView ==
  \A s \in 1..Len(ledger) :
    /\ Count(chartData, s) <= QualifyingSwaps(ledger[s])
    /\ Count(store, s) <= 1

\* C5 (as claimed): a backfill call that has ended has invoked handleTx on
\* each signature newer than its cursor that the ledger held at its first
\* page exactly once, and on no other.
C5_GapFreeBackfill ==
  lastPass.kind # "none"
    => /\ \A s \in (lastPass.since + 1)..lastPass.n0 : Occurrences(lastPass.visited, s) = 1
       /\ \A i \in 1..Len(lastPass.visited) :
            lastPass.visited[i] \in (lastPass.since + 1)..lastPass.n0

Increasing(s) == \A i, j \in 1..Len(s) : i < j => s[i] < s[j]

\* C6 (as claimed): a backfill pass hands its signatures to handleTx in
\* increasing ledger order, over all its pages.
C6_BackfillOrdering ==
  /\ Increasing(lastPass.visited)
  /\ \A k \in 1..Len(backfills) : Increasing(backfills[k].visited)

\* C7 (as claimed): no two handleTx executions are in flight together.
C7_Serialization == InFlight <= 1

\* C8 (as claimed): during a run lastSavedSignature never goes from a
\* signature to an older one.
C8_CursorMonotonic ==
  [][(phase # "down" /\ phase' # "down" /\ lastSavedSignature # 0)
       => lastSavedSignature' >= lastSavedSignature]_vars

\* C9 (as claimed): a signature whose fetch has failed is fetched again by
\* a later backfill pass that hands it to handleTx: no such pass skips it.
C9_FailedFetchDeferred == skippedFailed = {}

\* C10 (as claimed): no backfill pass is ended by an exception from the
\* evaluation of an instruction.
C10_MalformedIsLocal == lastPass.ending # "instruction-threw"

(***************************************************************************)
(* The claims about the reconstruction, read off the fetched transaction   *)
(* itself: the one instruction, its tag, and the balance deltas of its 4th *)
(* and 7th referenced accounts (a missing snapshot counting as 0).         *)
(***************************************************************************)
TheInstruction == fetched.tx.instructions[1]

TheTag == TheInstruction.data[1]

KeyIndex(account) ==
  (CHOOSE i \in 1..Len(fetched.tx.accountKeys) : fetched.tx.accountKeys[i] = account) - 1

Amount(balances, idx) ==
  IF \E i \in 1..Len(balances) : balances[i].accountIndex = idx
  THEN balances[CHOOSE i \in 1..Len(balances) : balances[i].accountIndex = idx].amount
  ELSE 0

Delta(account) ==
  Amount(fetched.tx.postTokenBalances, KeyIndex(account))
    - Amount(fetched.tx.preTokenBalances, KeyIndex(account))

SrcDelta == Delta(TheInstruction.accounts[4])
DstDelta == Delta(TheInstruction.accounts[7])

\* 10^(precision of the mint)
ScaleOf(mint) == IF mint = mintAAddress THEN 10 ^ decimalsA ELSE 10 ^ decimalsB

Frac(n, d) == [num |-> n, den |-> d]
\* equality of two fractions
FEq(a, b) == a.num * b.den = b.num * a.den

C12_AmountScaling ==
  fetched.handled =>
    \A i \in 1..Len(chartData) :
      /\ FEq(chartData[i].amountIn, Frac(-SrcDelta, ScaleOf(chartData[i].swappedFrom)))
      /\ FEq(chartData[i].amountOut, Frac(DstDelta, ScaleOf(chartData[i].swappedTo)))

\* C13 (as claimed): a swap-tagged instruction of the swap program whose
\* source delta is below 0 and whose destination delta is above 0 yields
\* exactly one event, with amountIn > 0 and amountOut > 0.
C13_ReconstructionComplete ==
  (fetched.handled /\ TheTag = 1 /\ SrcDelta < 0 /\ DstDelta > 0)
    => /\ Len(chartData) = 1
       /\ chartData[1].amountIn.num > 0
       /\ chartData[1].amountOut.num > 0

\* C14: an event is appended only for an instruction with the swap tag, a
\* source delta below 0 and a destination delta above 0: with another tag
\* or another pair of signs chartData gets nothing.
C14_RejectionCorrect ==
  (fetched.handled /\ chartData # <<>>)
    => (TheTag = 1 /\ SrcDelta < 0 /\ DstDelta > 0)

\* C14 witness: a swap-tagged instruction with the deltas the wrong way
\* round has been evaluated and has appended nothing
C14_Witness ==
  /\ fetched.handled
  /\ TheTag = 1
  /\ SrcDelta > 0
  /\ DstDelta < 0
  /\ chartData = <<>>

(***************************************************************************)
(* The claim about the decoder.                                            *)
(***************************************************************************)
\* byte k (0 the lowest) of an unsigned number
RECURSIVE ByteOf(_, _)
ByteOf(v, k) == IF k = 0 THEN v % 256 ELSE ByteOf(v \div 256, k - 1)

\* C15: decodeSwapInstruction returns null exactly when the payload has
\* fewer than 17 bytes or its byte 0 is not 1; otherwise amountIn is the
\* unsigned little-endian value of bytes 1-8 and minAmountOut that of bytes
\* 9-16; and the call changes nothing of the indexer's state.
C15_Decoder ==
  /\ [](decoded.returned =>
          /\ decoded.value.isNull <=> (Len(payload) < 17 \/ payload[1] # 1)
          /\ ~decoded.value.isNull =>
                /\ decoded.value.amountIn >= 0
                /\ decoded.value.minAmountOut >= 0
                /\ \A k \in 0..7 :
                     /\ ByteOf(decoded.value.amountIn, k) = payload[2 + k]
                     /\ ByteOf(decoded.value.minAmountOut, k) = payload[10 + k])
  /\ [][decoded' # decoded => UNCHANGED indexer]_vars

\* C15 witness: a payload with tag 1 and amounts of more than one byte has
\* been decoded
C15_Witness ==
  /\ decoded.returned
  /\ ~decoded.value.isNull
  /\ decoded.value.amountIn > 255
  /\ decoded.value.minAmountOut > 255

(***************************************************************************)
(* The claims about the chart endpoint.                                    *)
(***************************************************************************)
\* C16 (as claimed): without after, a request with count >= 0 is answered
\* with exactly the last min(count, n) events of the view, in order.
C16_QueryLimit ==
  (request.answered /\ request.after = 0 /\ request.count >= 0)
    => response = SubSeq(chartData,
                         Len(chartData) - Min(request.count, Len(chartData)) + 1,
                         Len(chartData))

\* C17 (as claimed): with after given, the answer holds no event whose
\* signature is after.
C17_QueryPagination ==
  (request.answered /\ request.after # 0)
    => \A i \in 1..Len(response) : response[i].signature # request.after

(***************************************************************************)
(* The claims about shutdown and about the seen-set.                       *)
(***************************************************************************)
\* C18 (as claimed): a graceful exit happens only once every handleTx call
\* has run to its end, so none is between its start and its end when the
\* process exits.
C18_ShutdownDrains == lastExit.by = "graceful" => lastExit.inFlight = 0

\* C19: when the graceful handler exits the process, every event that was
\* in chartData at that moment has its signature in the store.
C19_FinalFlush ==
  lastExit.by = "graceful" => \A sig \in lastExit.events : HasRow(store, sig)

\* C19 witness: a graceful exit that found events not yet flushed.
C19_Witness ==
  /\ lastExit.by = "graceful"
  /\ lastExit.unflushed > 0
  /\ \A sig \in lastExit.events : HasRow(store, sig)

\* C20 (as claimed): the seen-set never holds more than the trim threshold
\* plus one signatures.
C20_BoundedSeen == Len(seen) <= SeenTrimAbove + 1

(***************************************************************************)
(* The claim about missing snapshots.                                      *)
(***************************************************************************)
\* the list has no entry for the account
Absent(balances, account) ==
  \A i \in 1..Len(balances) : balances[i].accountIndex # KeyIndex(account)

\* a pre- or post-snapshot of the user-source or user-destination account
\* is absent
SomeSnapshotAbsent ==
  \E account \in {TheInstruction.accounts[4], TheInstruction.accounts[7]} :
    \/ Absent(fetched.tx.preTokenBalances, account)
    \/ Absent(fetched.tx.postTokenBalances, account)

\* C21 (as claimed): a swap-tagged instruction of this pool with an absent
\* snapshot is put to the sign check with the absent side taken as 0: it
\* yields an event exactly when its source delta is below 0 and its
\* destination delta above 0.
C21_MissingSnapshotIsZero ==
  (fetched.handled /\ TheTag = 1 /\ fetched.tx.accountKeys = MsgKeys
     /\ SomeSnapshotAbsent)
    => (chartData # <<>> <=> (SrcDelta < 0 /\ DstDelta > 0))

(***************************************************************************)
(* The claim about what a flush does to the store.                         *)
(***************************************************************************)
\* the signatures the rows hold
SignaturesOf(rows) == {rows[i].signature : i \in 1..Len(rows)}

\* C22: no step, a flushToDB call least of all, takes a row out of the
\* store or changes one: every row is there afterwards with the fields it
\* had, and the set of stored signatures only grows.
C22_FlushOnlyAppends ==
  [][/\ \A i \in 1..Len(store) : \E j \in 1..Len(store') : store'[j] = store[i]
     /\ SignaturesOf(store) \subseteq SignaturesOf(store')]_vars

\* C22 witness: flushToDB has run in this process over more events than
\* the store has rows, and the store holds two rows
C22_Witness ==
  /\ phase = "running"
  /\ lastFlushed = Len(chartData)
  /\ Len(chartData) > Len(store)
  /\ Len(store) >= 2

(***************************************************************************)
(* The claim about the instruction loop, read off the fetched transaction: *)
(* which of its instructions qualify.                                      *)
(***************************************************************************)
IsKey(account) == \E i \in 1..Len(fetched.tx.accountKeys) : fetched.tx.accountKeys[i] = account

\* an instruction of the swap program with the swap tag whose user source
\* lost and whose user destination gained in the transaction
Qualifies(inst) ==
  /\ inst.programId = TOKEN_SWAP_PROGRAM_ID
  /\ inst.data[1] = 1
  /\ Len(inst.accounts) >= 7
  /\ IsKey(inst.accounts[4])
  /\ IsKey(inst.accounts[7])
  /\ Delta(inst.accounts[4]) < 0
  /\ Delta(inst.accounts[7]) > 0

QualifyingAt == {i \in 1..Len(fetched.tx.instructions) : Qualifies(fetched.tx.instructions[i])}

\* C23: a transaction with j qualifying instructions appends exactly j
\* events, all with its signature, whatever rejected instructions stand
\* before, between or behind them.
C23_IndependentEvaluation ==
  fetched.handled =>
    /\ Len(chartData) = Cardinality(QualifyingAt)
    /\ \A i \in 1..Len(chartData) : chartData[i].signature = fetched.signature

\* C23 witness: a rejected instruction of the swap program stood before a
\* qualifying one, whose event has been appended
C23_Witness ==
  /\ fetched.handled
  /\ \E i, j \in 1..Len(fetched.tx.instructions) :
       /\ i < j
       /\ fetched.tx.instructions[i] \in {ReversedInst, DepositInst, StrangerInst}
       /\ j \in QualifyingAt
  /\ Len(chartData) >= 1

(***************************************************************************)
(* The claims about handleTx, statement by statement.                      *)
(***************************************************************************)
\* the swap-program instructions of the transaction of the call
TheSwaps == SwapProgramInstructions(fetched.tx)

\* C24: the cursor is set only by the handleTx call, to its signature, and
\* only when every swap-program instruction of its transaction has had its
\* pass of the loop; while a transaction handled for the first time has
\* an instruction still to be evaluated the cursor is not its signature.
C24_CursorAfterProcessing ==
  /\ [][lastSavedSignature' # lastSavedSignature
          => /\ lastSavedSignature' = fetched.signature
             /\ fetched.pc = "loop"
             /\ fetched.at = Len(TheSwaps)]_vars
  /\ []((fetched.signature = Len(ledger) /\ ~fetched.handled)
          => lastSavedSignature # fetched.signature)

\* C24 witness: the call has set the cursor after the passes of the two
\* swap-program instructions of its transaction
C24_Witness ==
  /\ fetched.handled
  /\ fetched.signature = Len(ledger)
  /\ lastSavedSignature = fetched.signature
  /\ fetched.at = 2
  /\ Len(chartData) > 0
  /\ chartData[Len(chartData)].signature = fetched.signature

\* what the indexer held when handleTx was called: it had handled the
\* transactions before the newest one of the ledger
HeldBefore == HandledInOrder(SubSeq(ledger, 1, Len(ledger) - 1), Len(ledger) - 1)

StoreBefore == IF lastFlushed = 0 THEN <<>> ELSE InsertFrom(<<>>, HeldBefore.chartData, 1)

\* the fetch returned null, or a transaction with an empty pre- or
\* post-balance list or with no instruction of the swap program
ReturnsEarly ==
  \/ fetched.outcome = "null"
  \/ /\ fetched.outcome = "ok"
     /\ \/ fetched.tx.preTokenBalances = <<>>
        \/ fetched.tx.postTokenBalances = <<>>
        \/ \A i \in 1..Len(fetched.tx.instructions) :
             fetched.tx.instructions[i].programId # TOKEN_SWAP_PROGRAM_ID

\* C26: a handleTx call on a signature that is in seen changes nothing; a
\* call on one that is not and that returns early adds the signature to
\* seen, without trimming, and leaves chartData, the cursor and the store
\* as they were.
C26_EarlyReturnFrame ==
  (fetched.handled /\ (Has(HeldBefore.seen, fetched.signature) \/ ReturnsEarly))
    => /\ seen = IF Has(HeldBefore.seen, fetched.signature) THEN HeldBefore.seen
                 ELSE Append(HeldBefore.seen, fetched.signature)
       /\ chartData = HeldBefore.chartData
       /\ lastSavedSignature = Len(ledger) - 1
       /\ store = StoreBefore
       /\ lastFlushed \in {0, Len(chartData)}

\* C26 witness: a call whose fetch returned null has ended and has left
\* seen above the trim threshold
C26_Witness ==
  /\ fetched.handled
  /\ fetched.outcome = "null"
  /\ ~Has(HeldBefore.seen, fetched.signature)
  /\ Len(seen) > SeenTrimAbove
  /\ chartData # <<>>

(***************************************************************************)
(* The claim about the restoration at startup.                             *)
(***************************************************************************)
\* runIndexer of a restarted process has loaded the store and awaits the
\* first page of the startup backfill
Restored ==
  /\ boots > 0
  /\ phase = "startup"
  /\ Len(backfills) = 1
  /\ backfills[1].n0 = -1

\* C25: once the store is loaded and before the startup backfill begins,
\* chartData holds exactly the rows of the store, ascending in timestamp,
\* seen holds exactly their signatures, lastFlushed is their number and
\* the cursor is the signature of the last of them, null (0) with no row.
C25_StartupRestoration ==
  Restored =>
    /\ Len(chartData) = Len(store)
    /\ \A i \in 1..Len(store) : Occurrences(chartData, store[i]) = 1
    /\ \A i \in 1..(Len(chartData) - 1) :
         chartData[i].timestamp <= chartData[i + 1].timestamp
    /\ Len(seen) = Len(store)
    /\ \A i \in 1..Len(store) : Has(seen, store[i].signature)
    /\ lastFlushed = Len(store)
    /\ lastSavedSignature =
         IF Len(store) = 0 THEN 0 ELSE chartData[Len(chartData)].signature

\* C25 witness: a restart has loaded rows that the store holds in another
\* order than that of their timestamps
C25_Witness ==
  /\ Restored
  /\ Len(store) >= 2
  /\ chartData # store
  /\ lastSavedSignature = chartData[Len(chartData)].signature

(***************************************************************************)
(* The claim about a graceful shutdown followed by a restart.              *)
(***************************************************************************)
\* C27 (as claimed): the view a restart restores after a graceful shutdown
\* is the view held at that shutdown: the same events, as many times, in
\* the same order.
C27_RoundTrip ==
  [][(phase = "down" /\ lastExit.by = "graceful" /\ phase' = "startup")
       => chartData' = lastExit.view]_vars

(***************************************************************************)
(* The claim about the startup backfill and the store.                     *)
(***************************************************************************)
\* C28: while runIndexer is in its startup backfill no step changes the
\* store: the timer and the signal handlers that flush are not yet there.
C28_NoFlushInStartup == [][phase = "startup" => store' = store]_vars

\* C28 witness: the startup backfill of a restarted process has appended
\* events to those restored, and none of them has been flushed
C28_Witness ==
  /\ phase = "startup"
  /\ boots > 0
  /\ store # <<>>
  /\ lastFlushed = Len(store)
  /\ Len(chartData) > lastFlushed
====
